---------------------------- MODULE Spec2Model ----------------------------
(***************************************************************************)
(* A model of periodiq (src/periodiq.py): the cron expression engine       *)
(* (CronSpec.parse, expand_valid, CronSpec.setup, CronSpec.validate,       *)
(* CronSpec.next_valid_date) and the Scheduler's wake/dispatch loop.       *)
(*                                                                         *)
(* Time.  A datetime is an integer: the number of clock ticks since        *)
(* EpochYear-01-01T00:00:00, Res ticks to the second.  The zone is taken   *)
(* to have a fixed UTC offset, so pendulum's add() is plain addition.      *)
(***************************************************************************)
EXTENDS Integers, Sequences, FiniteSets, TLC

-----------------------------------------------------------------------------
(* Bounds of the model. *)

\* clock ticks per second (the sub-second resolution of the model)
Res == 2
\* the year whose 1st of January 00:00:00 is datetime 0
EpochYear == 2023
\* how many calls of validate / next_valid_date one CronSpec receives
MaxCalls == 2
\* how many times schedule() runs in one behaviour
MaxTicks == 3
\* the longest time, in seconds, that sending the due messages takes
StallSecs == 5

-----------------------------------------------------------------------------
(* An operator argument or LET definition may be evaluated again at each  *)
(* of its uses, so a value that is costly to compute and used repeatedly  *)
(* is bound by a quantifier over a singleton: The(S) is the element of    *)
(* the singleton S.                                                       *)
The(S) == CHOOSE x \in S : TRUE

-----------------------------------------------------------------------------
(* Calendar: calendar.monthrange and the datetime attributes that the code *)
(* reads (minute, hour, day, month, year, isoweekday()).                   *)

TicksPerMinute == 60 * Res
TicksPerHour == 60 * TicksPerMinute
TicksPerDay == 24 * TicksPerHour

isleap(y) == y % 4 = 0 /\ (y % 100 # 0 \/ y % 400 = 0)

\* calendar.monthrange(year, month)[1]: the number of days of the month
monthrange(y, m) ==
    IF m = 2 THEN (IF isleap(y) THEN 29 ELSE 28)
    ELSE IF m \in {4, 6, 9, 11} THEN 30 ELSE 31

\* number of leap years before year y (proleptic Gregorian)
LeapsBefore(y) == ((y - 1) \div 4) - ((y - 1) \div 100) + ((y - 1) \div 400)

\* days from 0001-01-01 to January 1st of year y
DaysBeforeYear(y) == 365 * (y - 1) + LeapsBefore(y)

\* days from January 1st of year y to the 1st of month m
DaysBeforeMonth(y, m) ==
    <<0, 31, 59, 90, 120, 151, 181, 212, 243, 273, 304, 334>>[m]
    + (IF m > 2 /\ isleap(y) THEN 1 ELSE 0)

\* the day number of a datetime, counted from the epoch
DayIndex(t) == t \div TicksPerDay

\* date.toordinal(): 0001-01-01 is day 1, a Monday
toordinal(t) == DaysBeforeYear(EpochYear) + DayIndex(t) + 1

dt_year(t) ==
    LET o == toordinal(t) - 1
    IN  CHOOSE y \in (1 + o \div 366)..(1 + o \div 365) :
            DaysBeforeYear(y) <= o /\ o < DaysBeforeYear(y + 1)

\* the day of year y that t lies in, counted from 0
DayOfYear(t, y) == toordinal(t) - 1 - DaysBeforeYear(y)

dt_month(t) ==
    The({CHOOSE m \in 1..12 :
            /\ DaysBeforeMonth(y, m) <= d
            /\ d < DaysBeforeMonth(y, m) + monthrange(y, m)
         : y \in {dt_year(t)}, d \in {DayOfYear(t, dt_year(t))}})

dt_day(t) ==
    The({DayOfYear(t, y) - DaysBeforeMonth(y, dt_month(t)) + 1 : y \in {dt_year(t)}})

dt_hour(t) == (t \div TicksPerHour) % 24

dt_minute(t) == (t \div TicksPerMinute) % 60

dt_second(t) == (t \div Res) % 60

\* the sub-second part of a datetime, in ticks
dt_subsecond(t) == t % Res

\* date.isoweekday(): Monday is 1, Sunday is 7
isoweekday(t) == ((toordinal(t) + 6) % 7) + 1

\* the datetime of a calendar date and wall-clock time (sub in ticks)
Stamp(y, mo, d, h, mi, s, sub) ==
    (DaysBeforeYear(y) - DaysBeforeYear(EpochYear) + DaysBeforeMonth(y, mo) + d - 1)
        * TicksPerDay
    + h * TicksPerHour + mi * TicksPerMinute + s * Res + sub

\* date.replace(second=0, microsecond=0)
replace_second0(t) == t - (t % TicksPerMinute)

add_minutes(t, k) == t + k * TicksPerMinute

add_hours(t, k) == t + k * TicksPerHour

add_days(t, k) == t + k * TicksPerDay

-----------------------------------------------------------------------------
(* Cron text.  A text is an alias ("@weekly") or a list of whitespace      *)
(* separated fields; a field is a comma separated list of intervals        *)
(* start[-end][/step]; start, end and step are tokens.  A token is a       *)
(* number, `*', a three-letter weekday name, or the empty string (an       *)
(* omitted end or step).                                                   *)

Num(n) == [k |-> "num", v |-> n]
Star == [k |-> "*", v |-> 0]
Name(s) == [k |-> s, v |-> 0]
Empty == [k |-> "", v |-> 0]

Interval(start, end, step) == [start |-> start, end |-> end, step |-> step]
\* the intervals `N', `N-M', `N-M/S', `*', `*/S' and a single weekday name
One(n) == Interval(Num(n), Empty, Empty)
Range(n, m) == Interval(Num(n), Num(m), Empty)
RangeStep(n, m, s) == Interval(Num(n), Num(m), Num(s))
All == Interval(Star, Empty, Empty)
AllStep(s) == Interval(Star, Empty, Num(s))
Day(s) == Interval(Name(s), Empty, Empty)

Text(fields) == [alias |-> "", fields |-> fields]
Alias(a) == [alias |-> a, fields |-> <<>>]
\* parsed_from = None
NoText == [alias |-> "None", fields |-> <<>>]

\* CronSpec._named_spec
named_spec(a) ==
    CASE a \in {"@yearly", "@annually"} ->
            <<(<<One(0)>>), <<One(0)>>, <<One(1)>>, <<One(1)>>, <<All>>>>
      [] a = "@monthly" ->
            <<(<<One(0)>>), <<One(0)>>, <<One(1)>>, <<All>>, <<All>>>>
      [] a = "@weekly" ->
            <<(<<One(0)>>), <<One(0)>>, <<All>>, <<All>>, <<One(0)>>>>
      [] a \in {"@daily", "@midnight"} ->
            <<(<<One(0)>>), <<One(0)>>, <<All>>, <<All>>, <<All>>>>
      [] a = "@hourly" ->
            <<(<<One(0)>>), <<All>>, <<All>>, <<All>>, <<All>>>>

weekdays == <<"sun", "mon", "tue", "wed", "thu", "fri", "sat">>

\* the names that __str__ gives to format_cron for the days 0..7
day_names == <<"Sun", "Mon", "Tue", "Wed", "Thu", "Fri", "Sat", "Sun">>

\* fields[4].lower() on one token: a capitalised weekday name becomes the
\* lower-case one; numbers, `*' and lower-case names are left as they are
lower_token(tok) ==
    IF \E i \in DOMAIN weekdays : day_names[i] = tok.k
    THEN Name(weekdays[CHOOSE i \in DOMAIN weekdays : day_names[i] = tok.k])
    ELSE tok

lower(field) ==
    [i \in DOMAIN field |->
        Interval(lower_token(field[i].start), lower_token(field[i].end),
                 lower_token(field[i].step))]

\* dow.replace(day, str(i)) for every weekday name: a name token becomes
\* the number of its place in weekdays, counted from 0
replace_day(tok) ==
    IF \E i \in DOMAIN weekdays : weekdays[i] = tok.k
    THEN Num((CHOOSE i \in DOMAIN weekdays : weekdays[i] = tok.k) - 1)
    ELSE tok

replace_weekdays(field) ==
    [i \in DOMAIN field |->
        Interval(replace_day(field[i].start), replace_day(field[i].end),
                 replace_day(field[i].step))]

\* sorted(valid), valid a set of integers
sorted(S) ==
    The({IF V = {} THEN <<>>
         ELSE LET lo == CHOOSE x \in V : \A y \in V : x <= y
                  hi == CHOOSE x \in V : \A y \in V : y <= x
              IN  SelectSeq([i \in 1..(hi - lo + 1) |-> lo + i - 1], LAMBDA x : x \in V)
         : V \in {S}})

\* the step taken as a modulo: the multiples of step from start to end
range_set_modulo(start, end, step) == {x \in start..end : x % step = 0}

\* set(range(start, end + 1, step)), step >= 1
range_set(start, end, step) ==
    IF end < start THEN {}
    ELSE {start + j * step : j \in 0..((end - start) \div step)}

\* value.replace('*', '{min}-{max}') on one interval
replace_star(iv, min, max) ==
    IF iv.start.k = "*" /\ iv.end.k = ""
    THEN Interval(Num(min), Num(max), iv.step)
    ELSE iv

\* the values one interval contributes
interval_values(iv, min, max) ==
    LET r == replace_star(iv, min, max)
        step == IF r.step.k = "" THEN 1 ELSE r.step.v
        start == r.start.v
        end == IF r.end.k = "" THEN start ELSE r.end.v
    IN  range_set(start, end, step)

\* int() fails on a token of the interval, or range() is given step 0
interval_fails(iv, min, max) ==
    LET r == replace_star(iv, min, max)
    IN  \/ r.start.k # "num"
        \/ r.end.k \notin {"num", ""}
        \/ r.step.k \notin {"num", ""}
        \/ r.step.k = "num" /\ r.step.v = 0

expand_fails(value, min, max) ==
    \E i \in DOMAIN value : interval_fails(value[i], min, max)

expand_valid(value, min, max) ==
    sorted(UNION {interval_values(value[i], min, max) : i \in DOMAIN value})

-----------------------------------------------------------------------------
(* CronSpec *)

\* an argument that may be None
None == [some |-> FALSE, val |-> <<>>]
Some(x) == [some |-> TRUE, val |-> x]

\* an object whose attributes are not yet set
NoSpec ==
    [minute |-> <<>>, minute_e |-> <<>>, hour |-> <<>>, hour_e |-> <<>>,
     dom |-> <<>>, is_dom_restricted |-> FALSE,
     month |-> <<>>, month_e |-> <<>>,
     dow |-> <<>>, dow_e |-> <<>>, is_dow_restricted |-> FALSE,
     parsed_from |-> NoText]

dom_restricted(dom) == Len(dom) < 31

dow_restricted(dow) == Len(dow) < 7

\* m + [period + m[0]]
extend(m, period) == Append(m, period + m[1])

setup(self, m, h, dom, month, dow) ==
    [minute |-> IF m.some THEN m.val ELSE self.minute,
     minute_e |-> IF m.some THEN extend(m.val, 60) ELSE self.minute_e,
     hour |-> IF h.some THEN h.val ELSE self.hour,
     hour_e |-> IF h.some THEN extend(h.val, 24) ELSE self.hour_e,
     dom |-> IF dom.some THEN dom.val ELSE self.dom,
     is_dom_restricted |->
        IF dom.some THEN dom_restricted(dom.val) ELSE self.is_dom_restricted,
     month |-> IF month.some THEN month.val ELSE self.month,
     month_e |-> IF month.some THEN extend(month.val, 12) ELSE self.month_e,
     dow |-> IF dow.some THEN dow.val ELSE self.dow,
     dow_e |-> IF dow.some THEN extend(dow.val, 7) ELSE self.dow_e,
     is_dow_restricted |->
        IF dow.some THEN dow_restricted(dow.val) ELSE self.is_dow_restricted,
     parsed_from |-> NoText]

\* setup raises: m[0], h[0], month[0] or dow[0] of an empty list
setup_fails(m, h, dom, month, dow) ==
    \/ m.some /\ m.val = <<>>
    \/ h.some /\ h.val = <<>>
    \/ month.some /\ month.val = <<>>
    \/ dow.some /\ dow.val = <<>>

\* CronSpec.__init__
CronSpec(m, h, dom, month, dow, parsed_from) ==
    [setup(NoSpec, Some(m), Some(h), Some(dom), Some(month), Some(dow))
        EXCEPT !.parsed_from = parsed_from]

\* the fields of a text after alias substitution and split()
split_fields(spec) ==
    IF spec.alias # "" THEN named_spec(spec.alias) ELSE spec.fields

\* CronSpec.parse raises instead of returning a CronSpec
parse_fails(spec) ==
    \/ spec.alias # "" /\ spec.alias \notin
          {"@yearly", "@annually", "@monthly", "@weekly", "@daily", "@midnight",
           "@hourly"}
    \/ LET fields == split_fields(spec)
       IN  \/ Len(fields) < 5
           \/ expand_fails(fields[1], 0, 59)
           \/ expand_fails(fields[2], 0, 23)
           \/ expand_fails(fields[3], 1, 31)
           \/ expand_fails(fields[4], 1, 12)
           \/ expand_fails(replace_weekdays(lower(fields[5])), 0, 7)
           \/ setup_fails(Some(expand_valid(fields[1], 0, 59)),
                          Some(expand_valid(fields[2], 0, 23)),
                          Some(expand_valid(fields[3], 1, 31)),
                          Some(expand_valid(fields[4], 1, 12)),
                          Some(expand_valid(replace_weekdays(lower(fields[5])), 0, 7)))

parse(spec) ==
    LET fields == split_fields(spec)
        dow == replace_weekdays(lower(fields[5]))
    IN  CronSpec(expand_valid(fields[1], 0, 59),
                 expand_valid(fields[2], 0, 23),
                 expand_valid(fields[3], 1, 31),
                 expand_valid(fields[4], 1, 12),
                 expand_valid(dow, 0, 7),
                 spec)

\* x in values, values a list
In(x, values) == \E v \in {x} : \E i \in DOMAIN values : values[i] = v

\* the weekday that validate looks up in self.dow
validate_weekday(date) == isoweekday(date)

\* the day test of validate
validate_day(self, date) ==
    LET weekday == validate_weekday(date)
    IN  IF self.is_dow_restricted /\ self.is_dom_restricted
        THEN In(dt_day(date), self.dom) \/ In(weekday, self.dow)
        ELSE In(dt_day(date), self.dom) /\ In(weekday, self.dow)

validate(self, date) ==
    /\ In(dt_minute(date), self.minute)
    /\ In(dt_hour(date), self.hour)
    /\ In(dt_month(date), self.month)
    /\ validate_day(self, date)

\* first(lambda x: x >= least, iterable): every call of first in the code
\* passes a function of this form.  No item is accepted: ValueError
first_fails(least, iterable) ==
    \A v \in {least} : \A i \in DOMAIN iterable : ~(iterable[i] >= v)

\* the first item of iterable that is >= least
first(least, iterable) ==
    The({Head(SelectSeq(iterable, LAMBDA x : x >= v)) : v \in {least}})

RECURSIVE sum(_)
sum(s) == IF s = <<>> THEN 0 ELSE Head(s) + sum(Tail(s))

monthesrange(start_year, start_month, end_month) ==
    [i \in 1..(end_month - start_month) |->
        LET m == start_month - 1 + i - 1
        IN  monthrange(start_year + (m \div 12), 1 + (m % 12))]

\* a candidate that is not moved to the following minute
nvd_candidate_same_minute(last) == replace_second0(last)

\* the earliest candidate: last without seconds, one minute later
nvd_candidate(last) == add_minutes(replace_second0(last), 1)

\* the candidate moved to the next valid minute
nvd_minute(self, n) ==
    The({add_minutes(n, first(minute, self.minute_e) - minute)
         : minute \in {dt_minute(n)}})

\* then to the next valid hour
nvd_hour(self, n) ==
    The({add_hours(n, first(hour, self.hour_e) - hour) : hour \in {dt_hour(n)}})

\* days to wait until the next valid weekday
nvd_delay_dow(self, n) ==
    The({first(last_dow, self.dow_e) - last_dow : last_dow \in {isoweekday(n) % 7}})

\* [x for x in self.dom if x <= month_days] + [month_days + self.dom[0]]
nvd_dom_e(self, month_days) ==
    Append(SelectSeq(self.dom, LAMBDA x : x <= month_days), month_days + self.dom[1])

\* days to wait until the next valid day of month
nvd_delay_dom(self, n) ==
    The({first(day, nvd_dom_e(self, month_days)) - day
         : month_days \in {monthrange(dt_year(n), dt_month(n))}, day \in {dt_day(n)}})

\* min(delay_dow, delay_dom), or the delay of the restricted field
nvd_delay_d(self, delay_dow, delay_dom) ==
    IF self.is_dow_restricted /\ self.is_dom_restricted
    THEN (IF delay_dow < delay_dom THEN delay_dow ELSE delay_dom)
    ELSE (IF self.is_dow_restricted THEN delay_dow ELSE delay_dom)

nvd_day(self, n) ==
    The({add_days(n, nvd_delay_d(self, delay_dow, delay_dom))
         : delay_dow \in {nvd_delay_dow(self, n)}, delay_dom \in {nvd_delay_dom(self, n)}})

nvd_month(self, n) ==
    The({add_days(n, sum(monthesrange(dt_year(n), month, first(month, self.month_e))))
         : month \in {dt_month(n)}})

\* next_valid_date raises: a search of first() finds nothing (ValueError), or
\* self.dom[0] is taken of an empty list (IndexError)
next_valid_date_fails(self, last) ==
    \E n1 \in {nvd_candidate(last)} :
       \/ first_fails(dt_minute(n1), self.minute_e)
       \/ \E n2 \in {nvd_minute(self, n1)} :
             \/ first_fails(dt_hour(n2), self.hour_e)
             \/ \E n3 \in {nvd_hour(self, n2)} :
                   \/ first_fails(isoweekday(n3) % 7, self.dow_e)
                   \/ self.dom = <<>>
                   \/ first_fails(dt_day(n3),
                                  nvd_dom_e(self, monthrange(dt_year(n3), dt_month(n3))))
                   \/ \E n4 \in {nvd_day(self, n3)} :
                         first_fails(dt_month(n4), self.month_e)

next_valid_date(self, last) ==
    The({nvd_month(self, n4) :
         n4 \in {nvd_day(self, n3) :
         n3 \in {nvd_hour(self, n2) :
         n2 \in {nvd_minute(self, n1) :
         n1 \in {nvd_candidate(last)}}}}})

-----------------------------------------------------------------------------
(* CronSpec: replace(), __eq__ and __str__ with its formatting functions. *)

\* setup is called on self, not on a copy
replace_in_place(self, m, h, dom, month, dow) ==
    [self |-> setup(self, m, h, dom, month, dow),
     copy |-> setup(self, m, h, dom, month, dow)]

\* CronSpec.replace: self after the call, and the copy it returns
replace(self, m, h, dom, month, dow) ==
    [self |-> self, copy |-> setup(self, m, h, dom, month, dow)]

astuple(self) == <<self.minute, self.hour, self.dom, self.month, self.dow>>

\* CronSpec.__eq__
eq(self, other) == astuple(self) = astuple(other)

\* names=None
NoNames == <<>>

\* group_intervals(values): the pairs (start, last) it yields; a run ends
\* where the next value is more than 1 above the last
group_intervals(values) ==
    LET idx == [i \in DOMAIN values |-> i]
        starts == SelectSeq(idx, LAMBDA i : i = 1 \/ values[i] - values[i - 1] > 1)
        stops == SelectSeq(idx, LAMBDA i : i = Len(values) \/ values[i + 1] - values[i] > 1)
    IN  [k \in DOMAIN starts |-> <<values[starts[k]], values[stops[k]]>>]

\* format_interval: the comma separated intervals of its result
format_interval(start, stop, names) ==
    IF stop = start
    THEN <<IF names = NoNames THEN One(start) ELSE Day(names[start + 1])>>
    ELSE IF names # NoNames
    THEN [j \in 1..((IF stop + 1 < Len(names) THEN stop + 1 ELSE Len(names)) - start)
            |-> Day(names[start + j])]
    ELSE <<Range(start, stop)>>

RECURSIVE join(_)
\* ','.join(items), each item a list of intervals
join(items) == IF items = <<>> THEN <<>> ELSE Head(items) \o join(Tail(items))

\* format_cron raises: values[0] of an empty list, or names[start] of a
\* single value that has no name
format_cron_fails(values, min_, max_, names) ==
    \/ values = <<>>
    \/ /\ ~(min_ = values[1] /\ values[Len(values)] = max_)
       /\ names # NoNames
       /\ \E k \in DOMAIN group_intervals(values) :
             /\ group_intervals(values)[k][1] = group_intervals(values)[k][2]
             /\ group_intervals(values)[k][1] + 1 > Len(names)

format_cron(values, min_, max_, names) ==
    IF min_ = values[1] /\ values[Len(values)] = max_
    THEN <<All>>
    ELSE join([k \in DOMAIN group_intervals(values) |->
                 format_interval(group_intervals(values)[k][1],
                                 group_intervals(values)[k][2], names)])

\* CronSpec.__str__ raises
CronSpec_str_fails(self) ==
    /\ self.parsed_from = NoText
    /\ \/ format_cron_fails(self.minute, 0, 59, NoNames)
       \/ format_cron_fails(self.hour, 0, 23, NoNames)
       \/ format_cron_fails(self.dom, 1, 31, NoNames)
       \/ format_cron_fails(self.month, 1, 12, NoNames)
       \/ format_cron_fails(self.dow, 0, 7, day_names)

\* CronSpec.__str__
CronSpec_str(self) ==
    IF self.parsed_from # NoText
    THEN self.parsed_from
    ELSE Text(<<format_cron(self.minute, 0, 59, NoNames),
                format_cron(self.hour, 0, 23, NoNames),
                format_cron(self.dom, 1, 31, NoNames),
                format_cron(self.month, 1, 12, NoNames),
                format_cron(self.dow, 0, 7, day_names)>>)

-----------------------------------------------------------------------------
(* Cron texts and instants that the cron engine is exercised on. *)

minute0 == <<One(0)>>
any == <<All>>

\* "* * * * *"
TextEveryMinute == Text(<<any, any, any, any, any>>)
\* "0 0 * * *"
TextMidnight == Text(<<minute0, minute0, any, any, any>>)
\* "0 0 31 * *"
TextDom31 == Text(<<minute0, minute0, <<One(31)>>, any, any>>)
\* "0 0 30 * *"
TextDom30 == Text(<<minute0, minute0, <<One(30)>>, any, any>>)
\* "0 0 29 2 *"
TextFeb29 == Text(<<minute0, minute0, <<One(29)>>, <<One(2)>>, any>>)
\* "0 0 * 2 *"
TextFebruary == Text(<<minute0, minute0, any, <<One(2)>>, any>>)
\* "0 0 * * 0", "0 0 * * 7", "0 0 * * sun"
TextSunday0 == Text(<<minute0, minute0, any, any, <<One(0)>>>>)
TextSunday7 == Text(<<minute0, minute0, any, any, <<One(7)>>>>)
TextSundayName == Text(<<minute0, minute0, any, any, <<Day("sun")>>>>)
\* "0 0 1,15 * 1"
TextDomOrMonday == Text(<<minute0, minute0, <<One(1), One(15)>>, any, <<One(1)>>>>)
\* "0 0 13 * 0-6"
TextDom13AnyDay == Text(<<minute0, minute0, <<One(13)>>, any, <<Range(0, 6)>>>>)
\* "15,45 3 * * *"
TextQuarters3 == Text(<<(<<One(15), One(45)>>), <<One(3)>>, any, any, any>>)
\* "10-20/3 */6 * * mon-fri"
\* "0 0 5-3 * *": a range of days that holds no day
TextDomNone == Text(<<minute0, minute0, <<Range(5, 3)>>, any, any>>)

TextSteps ==
    Text(<<(<<RangeStep(10, 20, 3)>>), <<AllStep(6)>>, any, any,
           <<Interval(Name("mon"), Name("fri"), Empty)>>>>)

\* Each family: cron texts, and the datetimes their CronSpecs are called with.
Families ==
    << [texts |-> <<TextEveryMinute>>,
        instants |-> {Stamp(2024, 6, 1, 0, 0, 0, 0), Stamp(2023, 12, 31, 23, 59, 30, 1),
                      Stamp(2024, 2, 29, 23, 59, 0, 0)}],
       [texts |-> <<TextMidnight>>,
        instants |-> {Stamp(2024, 6, 1, 0, 0, 0, 0), Stamp(2024, 2, 28, 12, 30, 15, 0),
                      Stamp(2024, 6, 1, 0, 1, 0, 0)}],
       [texts |-> <<TextDom31>>,
        instants |-> {Stamp(2024, 2, 1, 0, 0, 0, 0), Stamp(2023, 1, 31, 0, 0, 0, 0),
                      Stamp(2024, 4, 1, 8, 0, 0, 0)}],
       [texts |-> <<TextDom30>>,
        instants |-> {Stamp(2023, 1, 29, 0, 0, 0, 0), Stamp(2023, 1, 30, 0, 0, 0, 0),
                      Stamp(2023, 4, 2, 0, 0, 59, 1)}],
       [texts |-> <<TextFeb29>>,
        instants |-> {Stamp(2023, 3, 1, 0, 0, 0, 0), Stamp(2024, 3, 1, 0, 0, 0, 0),
                      Stamp(2024, 2, 28, 23, 0, 0, 0)}],
       [texts |-> <<TextFebruary>>,
        instants |-> {Stamp(2023, 1, 30, 0, 0, 0, 0), Stamp(2023, 1, 31, 0, 0, 0, 0),
                      Stamp(2023, 2, 1, 0, 0, 0, 0)}],
       [texts |-> <<TextSunday0, TextSunday7, TextSundayName, Alias("@weekly")>>,
        instants |-> {Stamp(2023, 1, 1, 0, 0, 0, 0), Stamp(2023, 1, 3, 0, 0, 0, 0),
                      Stamp(2023, 1, 7, 23, 59, 0, 0)}],
       [texts |-> <<TextDomOrMonday>>,
        instants |-> {Stamp(2024, 1, 1, 0, 0, 0, 0), Stamp(2024, 1, 2, 0, 0, 0, 0),
                      Stamp(2024, 1, 8, 0, 0, 0, 0), Stamp(2024, 1, 15, 0, 0, 45, 0)}],
       [texts |-> <<TextDom13AnyDay>>,
        instants |-> {Stamp(2023, 8, 13, 0, 0, 0, 0), Stamp(2023, 8, 6, 0, 0, 0, 0),
                      Stamp(2023, 8, 7, 0, 0, 0, 0)}],
       [texts |-> <<TextQuarters3>>,
        instants |-> {Stamp(2023, 1, 3, 2, 20, 0, 0), Stamp(2023, 1, 3, 3, 15, 0, 0),
                      Stamp(2023, 1, 3, 3, 45, 0, 0)}],
       [texts |-> <<TextSteps>>,
        instants |-> {Stamp(2024, 5, 31, 5, 19, 59, 1), Stamp(2024, 5, 31, 18, 20, 0, 0),
                      Stamp(2024, 6, 3, 6, 13, 0, 0)}],
       [texts |-> <<TextDomNone, TextMidnight>>,
        instants |-> {Stamp(2024, 6, 1, 0, 0, 0, 0), Stamp(2024, 6, 5, 0, 0, 0, 0),
                      Stamp(2024, 6, 3, 12, 0, 0, 0)}] >>

-----------------------------------------------------------------------------
VARIABLES
    family,     \* cron engine: which family of Families is exercised
    crons,      \* cron engine: the CronSpec objects parsed from its texts
    dates,      \* cron engine: the next_valid_date calls made, with results
    checks,     \* cron engine: the validate calls made, with results
    failed,     \* cron engine: the next_valid_date calls that raised
    actors,     \* Scheduler.actors: the 'periodic' option (a CronSpec) of each
    clock,      \* what pendulum.now() returns
    pc,         \* where the main thread is: "main", "schedule", "loop"
    now,        \* schedule(): the evaluation datetime of the last tick
    next_date,  \* schedule(): the earliest next valid date of the last tick
    alarm,      \* the pending alarm(): the set of its expiry time, or {}
    handler,    \* whether signal(SIGALRM, self.signal_handler) was called
    alarm_q,    \* Scheduler.alarm_q
    sent,       \* the messages sent by actor.send_with_options, in order
    ticks,      \* history: one record for each run of schedule()
    message,    \* middleware: the message a worker is about to process
    skip_delay, \* middleware: PeriodiqMiddleware.skip_delay, in seconds
    outcome,    \* middleware: "queued", then "skipped" or "processed"
    source,     \* texts: the text that the first CronSpec.parse is given
    objs,       \* texts: the CronSpec objects made by parse and replace
    parses,     \* texts: the parse calls made, with results
    expands,    \* texts: the expand_valid calls that returned, with results
    replaces,   \* texts: the replace calls made, with results
    strs        \* texts: the str() calls made, with results

cronvars == <<family, crons, dates, checks, failed>>
schedvars == <<actors, clock, pc, now, next_date, alarm, handler, alarm_q, sent, ticks>>
workervars == <<message, skip_delay, outcome>>
textvars == <<source, objs, parses, expands, replaces, strs>>
vars == <<family, crons, dates, checks, failed,
          actors, clock, pc, now, next_date, alarm, handler, alarm_q, sent, ticks,
          message, skip_delay, outcome,
          source, objs, parses, expands, replaces, strs>>

\* a message of an actor without the 'periodic' option and with no options
NoMessage == [periodic |-> FALSE, scheduled_at |-> <<>>]

\* no text handed to parse
TextIdle ==
    /\ source = NoText
    /\ objs = <<>>
    /\ parses = {}
    /\ expands = {}
    /\ replaces = {}
    /\ strs = {}

\* no worker at work
WorkerIdle ==
    /\ message = NoMessage
    /\ skip_delay = 0
    /\ outcome = "queued"

\* the scheduler before main() starts, with no actors
SchedIdle ==
    /\ actors = <<>>
    /\ clock = 0
    /\ pc = "main"
    /\ now = 0
    /\ next_date = 0
    /\ alarm = {}
    /\ handler = FALSE
    /\ alarm_q = <<>>
    /\ sent = <<>>
    /\ ticks = <<>>

\* no CronSpec under test
CronIdle ==
    /\ family = 0
    /\ crons = <<>>
    /\ dates = {}
    /\ checks = {}
    /\ failed = {}

-----------------------------------------------------------------------------
(* The cron engine: CronSpec objects and the calls made on them. *)

InitCron ==
    /\ family \in DOMAIN Families
    /\ crons = [i \in DOMAIN Families[family].texts |-> parse(Families[family].texts[i])]
    /\ dates = {}
    /\ checks = {}
    /\ failed = {}
    /\ SchedIdle
    /\ WorkerIdle
    /\ TextIdle

\* crons[i].next_valid_date(last)
NextValidDate(i, last) ==
    /\ Cardinality(dates) + Cardinality(checks) + Cardinality(failed) < MaxCalls
    /\ IF next_valid_date_fails(crons[i], last)
       THEN /\ failed' = failed \cup {[i |-> i, last |-> last]}
            /\ UNCHANGED dates
       ELSE /\ \E next \in {next_valid_date(crons[i], last)} :
                  dates' = dates \cup {[i |-> i, last |-> last, next |-> next]}
            /\ UNCHANGED failed
    /\ UNCHANGED <<family, crons, checks>>
    /\ UNCHANGED <<schedvars, workervars, textvars>>

\* crons[i].validate(date)
Validate(i, date) ==
    /\ Cardinality(dates) + Cardinality(checks) + Cardinality(failed) < MaxCalls
    /\ \E ok \in {validate(crons[i], date)} :
          checks' = checks \cup {[i |-> i, date |-> date, ok |-> ok]}
    /\ UNCHANGED <<family, crons, dates, failed>>
    /\ UNCHANGED <<schedvars, workervars, textvars>>

\* the datetimes a CronSpec of the family is called with: the family's
\* instants and the dates that next_valid_date returned
Inputs == Families[family].instants \cup {r.next : r \in dates}

NextCron ==
    \/ \E i \in DOMAIN crons : \E last \in Inputs : NextValidDate(i, last)
    \/ \E i \in DOMAIN crons : \E date \in Inputs : Validate(i, date)

SpecCron == InitCron /\ [][NextCron]_vars

-----------------------------------------------------------------------------
(* Texts and objects: parse with its expand_valid calls, replace, str(). *)

MaxOps == 4

\* "* * * *": four fields
TextFour == Text(<<any, any, any, any>>)
\* "* * * * * *": six fields
TextSix == Text(<<any, any, any, any, any, any>>)
\* "a * * * *": a token that is no number
TextWord == Text(<<(<<Interval(Name("a"), Empty, Empty)>>), any, any, any, any>>)
\* "70 * * * *": a minute above 59
TextMinute70 == Text(<<(<<One(70)>>), any, any, any, any>>)
\* "* * * * 9": a weekday above 7
TextDow9 == Text(<<any, any, any, any, <<One(9)>>>>)
\* "*/0 * * * *": a step of zero
TextStep0 == Text(<<(<<AllStep(0)>>), any, any, any, any>>)
\* "5-3 * * * *": a range of minutes that holds no minute
TextMinuteNone == Text(<<(<<Range(5, 3)>>), any, any, any, any>>)
\* "1,1-2,5/15 * * * *": a value given twice, and a single value with a step
TextTwice == Text(<<(<<One(1), Range(1, 2), Interval(Num(5), Empty, Num(15))>>),
                    any, any, any, any>>)

\* the texts given to CronSpec.parse
ParseTexts ==
    {TextEveryMinute, TextSteps, TextTwice, TextSundayName, Alias("@weekly"),
     Alias("@never"), TextFour, TextSix, TextWord, TextMinute70, TextDow9,
     TextStep0, TextMinuteNone, TextDomNone}

\* the arguments of a replace call
Args(m, h, dom, month, dow) == [m |-> m, h |-> h, dom |-> dom, month |-> month, dow |-> dow]

ReplaceArgs ==
    {Args(Some(<<0, 59>>), None, None, None, None),
     Args(Some(<<0, 1, 2, 5, 7, 8>>), Some(<<12>>), None, None, None),
     Args(None, None, Some(<<1, 15>>), Some(<<6>>), Some(<<1, 2, 3, 5>>)),
     Args(None, None, None, None, Some(<<7>>)),
     Args(None, None, None, None, Some(<<0>>)),
     Args(Some(<<>>), None, None, None, None)}

\* the bounds that parse gives to expand_valid, field by field
field_min == <<0, 0, 1, 1, 0>>
field_max == <<59, 23, 31, 12, 7>>

\* the value that parse gives to expand_valid for field k
field_value(fields, k) ==
    IF k = 5 THEN replace_weekdays(lower(fields[5])) ELSE fields[k]

\* the expand_valid calls of parse(spec) that returned: the arguments are
\* evaluated in order, up to the first call that raises
parse_expands(spec) ==
    IF spec.alias # "" /\ parse_fails(spec) THEN {}
    ELSE IF Len(split_fields(spec)) < 5 THEN {}
    ELSE {[value |-> field_value(split_fields(spec), k),
           min |-> field_min[k], max |-> field_max[k],
           ret |-> expand_valid(field_value(split_fields(spec), k),
                                field_min[k], field_max[k])]
          : k \in {k \in 1..5 :
                     \A j \in 1..k : ~expand_fails(field_value(split_fields(spec), j),
                                                   field_min[j], field_max[j])}}

\* how many calls were made
Ops == Cardinality(parses) + Cardinality(replaces) + Cardinality(strs)

InitText ==
    /\ CronIdle
    /\ SchedIdle
    /\ WorkerIdle
    /\ source \in ParseTexts
    /\ objs = <<>>
    /\ parses = {}
    /\ expands = {}
    /\ replaces = {}
    /\ strs = {}

\* the texts that str() returned
Rendered == {c.text : c \in {c \in strs : ~c.raised}}

\* CronSpec.parse(text), of the source text first and then of rendered texts
Parse(text) ==
    /\ Ops < MaxOps
    /\ IF parses = {} THEN text = source ELSE text \in Rendered
    /\ \A c \in parses : c.text # text
    /\ IF parse_fails(text)
       THEN /\ parses' = parses \cup {[text |-> text, raised |-> TRUE, obj |-> 0]}
            /\ UNCHANGED objs
       ELSE /\ parses' = parses \cup
                  {[text |-> text, raised |-> FALSE, obj |-> Len(objs) + 1]}
            /\ objs' = Append(objs, parse(text))
    /\ expands' = expands \cup parse_expands(text)
    /\ UNCHANGED <<source, replaces, strs>>
    /\ UNCHANGED <<cronvars, schedvars, workervars>>

\* objs[i].replace(m, h, dom, month, dow) with the arguments a
Replace(i, a) ==
    /\ Ops < MaxOps
    /\ IF setup_fails(a.m, a.h, a.dom, a.month, a.dow)
       THEN /\ replaces' = replaces \cup
                  {[src |-> i, args |-> a, before |-> objs[i], raised |-> TRUE,
                    new |-> 0]}
            /\ UNCHANGED objs
       ELSE \E r \in {replace(objs[i], a.m, a.h, a.dom, a.month, a.dow)} :
            /\ replaces' = replaces \cup
                  {[src |-> i, args |-> a, before |-> objs[i], raised |-> FALSE,
                    new |-> Len(objs) + 1]}
            /\ objs' = Append([objs EXCEPT ![i] = r.self], r.copy)
    /\ UNCHANGED <<source, parses, expands, strs>>
    /\ UNCHANGED <<cronvars, schedvars, workervars>>

\* str(objs[i])
Str(i) ==
    /\ Ops < MaxOps
    /\ strs' = strs \cup
          {IF CronSpec_str_fails(objs[i])
           THEN [obj |-> i, raised |-> TRUE, text |-> NoText]
           ELSE [obj |-> i, raised |-> FALSE, text |-> CronSpec_str(objs[i])]}
    /\ UNCHANGED <<source, objs, parses, expands, replaces>>
    /\ UNCHANGED <<cronvars, schedvars, workervars>>

\* the calls go to the object made last
NextText ==
    \/ \E text \in {source} \cup Rendered : Parse(text)
    \/ \E a \in ReplaceArgs : objs # <<>> /\ Replace(Len(objs), a)
    \/ objs # <<>> /\ Str(Len(objs))

SpecText == InitText /\ [][NextText]_vars

-----------------------------------------------------------------------------
(* The Scheduler: main(), schedule(), loop() and the SIGALRM handler. *)

\* The actor lists that main() finds, and the times at which it starts.
Runs ==
    << [actors |-> <<TextEveryMinute, TextMidnight>>,
        starts |-> {Stamp(2024, 5, 31, 23, 59, 58, 0), Stamp(2024, 5, 31, 23, 59, 54, 1),
                    Stamp(2024, 5, 31, 23, 59, 55, 0)}],
       [actors |-> <<TextQuarters3>>,
        starts |-> {Stamp(2023, 1, 3, 2, 20, 0, 0), Stamp(2023, 1, 3, 3, 14, 59, 1)}],
       [actors |-> <<TextSteps, TextEveryMinute>>,
        starts |-> {Stamp(2024, 5, 31, 6, 9, 30, 0), Stamp(2024, 5, 31, 6, 15, 56, 1)}],
       [actors |-> <<TextSunday7, TextDomOrMonday, TextMidnight>>,
        starts |-> {Stamp(2023, 12, 30, 23, 59, 0, 0), Stamp(2023, 12, 31, 23, 59, 59, 0)}] >>

\* how long the sending of the due messages may take, in ticks
SendLags == {0, 1, StallSecs * Res}

\* how late after its expiry the alarm's event reaches loop(), in ticks
WakeLags == {0, 1}

Init ==
    /\ CronIdle
    /\ WorkerIdle
    /\ TextIdle
    /\ \E r \in DOMAIN Runs :
          /\ actors = [i \in DOMAIN Runs[r].actors |-> parse(Runs[r].actors[i])]
          /\ clock \in Runs[r].starts
    /\ pc = "main"
    /\ now = 0
    /\ next_date = 0
    /\ alarm = {}
    /\ handler = FALSE
    /\ alarm_q = <<>>
    /\ sent = <<>>
    /\ ticks = <<>>

\* main(), from pendulum.now() to the call of scheduler.schedule()
Main ==
    /\ pc = "main"
    /\ clock' = IF dt_second(clock) > 55
                THEN clock + (60 - dt_second(clock)) * Res
                ELSE clock
    /\ pc' = "schedule"
    /\ UNCHANGED <<actors, now, next_date, alarm, handler, alarm_q, sent, ticks>>
    /\ UNCHANGED <<cronvars, workervars, textvars>>

\* (t + timedelta(seconds=0.5)).replace(microsecond=0)
schedule_now(t) == ((2 * t + Res) \div (2 * Res)) * Res

\* str(now): the calendar fields of a datetime without microseconds
str(t) ==
    The({[year |-> dt_year(v), month |-> dt_month(v), day |-> dt_day(v),
          hour |-> dt_hour(v), minute |-> dt_minute(v), second |-> dt_second(v)]
         : v \in {t}})

\* every actor, due or not
due_actors_all(as, t) == [i \in DOMAIN as |-> i]

\* [a for a in self.actors if a.options['periodic'].validate(now)]
due_actors(as, t) ==
    SelectSeq([i \in DOMAIN as |-> i], LAMBDA i : validate(as[i], t))

\* Scheduler.send_actors: the messages it sends
send_actors(due, t) ==
    The({[k \in DOMAIN due |-> [actor |-> due[k], scheduled_at |-> now_str]]
         : now_str \in {str(t)}})

\* the next valid date of the first actor, whatever the others are
first_next_date_unsorted(as, t) == next_valid_date(as[1], t)

\* prioritized_actors[0][0]: the least next valid date
first_next_date(as, t) ==
    The({CHOOSE d \in ds : \A e \in ds : d <= e
         : ds \in {{next_valid_date(as[i], t) : i \in DOMAIN as}}})

\* one second less than the whole seconds of the delay
whole_seconds_short(delay) == (delay \div Res) - 1

\* int(delay_s): the whole seconds of a positive delay given in ticks
whole_seconds(delay) == delay \div Res

\* delay_s % 1, in ticks
sub_second(delay) == delay % Res

\* a delay of zero is taken for a positive one
recurses_below_zero(delay) == delay < 0

\* if delay.total_seconds() <= 0: return self.schedule()
recurses(delay) == delay <= 0

\* the alarm is armed whatever the whole seconds are
arms_alarm_always(delay_s) == TRUE

\* if delay_s: alarm(delay_s) ... else: put_nowait
arms_alarm(delay_s) == delay_s # 0

\* two events are put for one wake
put_nowait_twice(q) == Append(Append(q, TRUE), TRUE)

\* self.alarm_q.put_nowait(True)
put_nowait(q) == Append(q, TRUE)

\* Scheduler.schedule(); sending the messages takes lag ticks
Schedule(lag) ==
    /\ pc = "schedule"
    /\ Len(ticks) < MaxTicks
    /\ \E n \in {schedule_now(clock)} :
       \E due \in {due_actors(actors, n)} :
       \E nd \in {first_next_date(actors, n)} :
       \E resampled \in {clock + lag} :
       \E delay \in {nd - resampled} :
       \E delay_s \in {whole_seconds(delay)} :
       \E delay_ms \in {sub_second(delay)} :
          /\ now' = n
          /\ sent' = sent \o send_actors(due, n)
          /\ next_date' = nd
          /\ ticks' = Append(ticks, [at |-> clock, now |-> n, from |-> Len(sent) + 1,
                                     to |-> Len(sent) + Len(due),
                                     next_date |-> nd, delay |-> delay,
                                     armed |-> ~recurses(delay) /\ arms_alarm(delay_s),
                                     alarm_s |-> IF ~recurses(delay) /\ arms_alarm(delay_s)
                                                 THEN delay_s ELSE 0,
                                     put |-> ~recurses(delay) /\ ~arms_alarm(delay_s)])
          /\ IF recurses(delay)
             THEN \* return self.schedule()
                  /\ clock' = resampled
                  /\ pc' = "schedule"
                  /\ UNCHANGED <<alarm, handler, alarm_q>>
             ELSE \* sleep(delay_ms), then alarm(delay_s) or alarm_q.put_nowait(True)
                  /\ clock' = resampled + delay_ms
                  /\ pc' = "loop"
                  /\ IF arms_alarm(delay_s)
                     THEN /\ alarm' = {resampled + delay_ms + delay_s * Res}
                          /\ handler' = TRUE
                          /\ UNCHANGED alarm_q
                     ELSE /\ alarm_q' = put_nowait(alarm_q)
                          /\ UNCHANGED <<alarm, handler>>
    /\ UNCHANGED actors
    /\ UNCHANGED <<cronvars, workervars, textvars>>

\* the alarm expires and Scheduler.signal_handler runs
SignalHandler(lag) ==
    /\ alarm # {}
    /\ handler
    /\ LET expiry == CHOOSE d \in alarm : TRUE
       IN  clock' = (IF clock < expiry THEN expiry ELSE clock) + lag
    /\ alarm' = {}
    /\ alarm_q' = put_nowait(alarm_q)
    /\ UNCHANGED <<actors, pc, now, next_date, handler, sent, ticks>>
    /\ UNCHANGED <<cronvars, workervars, textvars>>

\* Scheduler.loop: alarm_q.get(block=True) returns an event
Loop ==
    /\ pc = "loop"
    /\ alarm_q # <<>>
    /\ alarm_q' = Tail(alarm_q)
    /\ pc' = IF Head(alarm_q) THEN "schedule" ELSE "exit"
    /\ UNCHANGED <<actors, clock, now, next_date, alarm, handler, sent, ticks>>
    /\ UNCHANGED <<cronvars, workervars, textvars>>

Next ==
    \/ Main
    \/ \E lag \in SendLags : Schedule(lag)
    \/ \E lag \in WakeLags : SignalHandler(lag)
    \/ Loop

Spec == Init /\ [][Next]_vars

\* schedule() and loop() are straight-line code of the one thread: an enabled
\* step of theirs is taken; the kernel delivers the signal of an expired alarm
FairSpec ==
    /\ Spec
    /\ WF_vars(\E lag \in SendLags : Schedule(lag))
    /\ WF_vars(\E lag \in WakeLags : SignalHandler(lag))
    /\ WF_vars(Loop)

-----------------------------------------------------------------------------
(* The middleware of the workers: PeriodiqMiddleware.before_process_message. *)

\* PeriodiqMiddleware.__init__(self, skip_delay=30)
DefaultSkipDelay == 30

\* the values of skip_delay a broker is set up with, in seconds
SkipDelays == {DefaultSkipDelay, 0, 2}

\* the evaluation datetimes of the ticks that sent the messages
ScheduledTimes == {Stamp(2024, 6, 1, 0, 0, 0, 0), Stamp(2023, 12, 31, 23, 59, 0, 0)}

\* how long after that datetime a worker takes the message, in ticks
Ages ==
    {0, 1, 2 * Res - 1, 2 * Res, 2 * Res + 1,
     DefaultSkipDelay * Res - 1, DefaultSkipDelay * Res, DefaultSkipDelay * Res + 1,
     (DefaultSkipDelay + StallSecs) * Res}

\* the messages a worker receives: of a periodic actor or not, sent by the
\* scheduler with scheduled_at or by another caller without it
Messages ==
    {[periodic |-> p, scheduled_at |-> o] :
        p \in BOOLEAN, o \in {<<>>} \cup {<<str(t)>> : t \in ScheduledTimes}}

\* pendulum.parse(message.options['scheduled_at'])
pendulum_parse(text) ==
    Stamp(text.year, text.month, text.day, text.hour, text.minute, text.second, 0)

\* a message as old as skip_delay is skipped too
too_old_or_equal(delta, skip) == delta >= skip * Res

\* delta.total_seconds() > self.skip_delay
too_old(delta, skip) == delta > skip * Res

\* before_process_message: TRUE if it raises SkipMessage
before_process_message(msg, skip, t) ==
    IF ~msg.periodic THEN FALSE
    ELSE IF msg.scheduled_at = <<>> THEN FALSE
    ELSE too_old(t - pendulum_parse(msg.scheduled_at[1]), skip)

InitWorker ==
    /\ CronIdle
    /\ TextIdle
    /\ actors = <<>>
    /\ pc = "main"
    /\ now = 0
    /\ next_date = 0
    /\ alarm = {}
    /\ handler = FALSE
    /\ alarm_q = <<>>
    /\ sent = <<>>
    /\ ticks = <<>>
    /\ message \in Messages
    /\ skip_delay \in SkipDelays
    /\ clock \in {t + a : t \in ScheduledTimes, a \in Ages}
    /\ outcome = "queued"

\* the worker calls the middleware before it processes the message
BeforeProcessMessage ==
    /\ outcome = "queued"
    /\ outcome' = IF before_process_message(message, skip_delay, clock)
                  THEN "skipped" ELSE "processed"
    /\ UNCHANGED <<message, skip_delay>>
    /\ UNCHANGED <<cronvars, schedvars, textvars>>

NextWorker == BeforeProcessMessage

SpecWorker == InitWorker /\ [][NextWorker]_vars

-----------------------------------------------------------------------------
(* Properties of the cron engine, stated of SpecCron. *)

\* the text that crons[i] was parsed from
TextOf(i) == Families[family].texts[i]

\* a datetime with no seconds and no sub-second part
WholeMinute(t) == t % TicksPerMinute = 0

\* C1: the date returned by next_valid_date is accepted by validate of the
\* same CronSpec.
C1_NextDateIsValid ==
    \A r \in dates : \A c \in checks :
        (c.i = r.i /\ c.date = r.next) => c.ok

\* C2: next_valid_date(last) is the smallest valid date after last: no whole
\* minute strictly between last and the returned date is accepted by validate.
C2_NextDateIsSmallest ==
    \A r \in dates : \A c \in checks :
        (c.i = r.i /\ WholeMinute(c.date) /\ r.last < c.date /\ c.date < r.next)
            => ~c.ok

\* C3: next_valid_date(t) is later than t, has no seconds and no sub-second
\* part, and is not before the start of the minute that follows t's minute.
C3_NextDateIsLater ==
    \A r \in dates :
        /\ r.next > r.last
        /\ dt_second(r.next) = 0
        /\ dt_subsecond(r.next) = 0
        /\ r.next >= replace_second0(r.last) + TicksPerMinute

\* C3 witness: called in the middle of a second, next_valid_date returned the
\* start of the following minute.
C3_Witness ==
    \E r \in dates :
        /\ dt_second(r.last) > 0
        /\ dt_subsecond(r.last) > 0
        /\ r.next = replace_second0(r.last) + TicksPerMinute

\* C4: next_valid_date is monotone: a later input never gives an earlier date.
C4_Monotone ==
    \A r1 \in dates : \A r2 \in dates :
        (r1.i = r2.i /\ r1.last <= r2.last) => r1.next <= r2.next

\* a field is restricted when its set does not cover every day of its domain
C5_DomRestricted(self) == \E d \in 1..31 : ~In(d, self.dom)
C5_DowRestricted(self) ==
    \E w \in 0..6 : ~\E k \in DOMAIN self.dow : self.dow[k] % 7 = w

\* the weekday of the date is in dow, 0 and 7 both being Sunday
C5_WeekdayInDow(self, date) ==
    \E k \in DOMAIN self.dow : self.dow[k] % 7 = isoweekday(date) % 7

C5_DayCondition(self, date) ==
    IF C5_DomRestricted(self) /\ C5_DowRestricted(self)
    THEN In(dt_day(date), self.dom) \/ C5_WeekdayInDow(self, date)
    ELSE IF C5_DomRestricted(self) THEN In(dt_day(date), self.dom)
    ELSE IF C5_DowRestricted(self) THEN C5_WeekdayInDow(self, date)
    ELSE TRUE

\* C5: validate accepts a date exactly when its minute, hour and month are in
\* the sets and the day condition holds: dom OR dow when both are restricted,
\* the restricted one alone when one is, nothing when none is.
C5_ValidateMeaning ==
    \A c \in checks :
        c.ok <=> /\ In(dt_minute(c.date), crons[c.i].minute)
                 /\ In(dt_hour(c.date), crons[c.i].hour)
                 /\ In(dt_month(c.date), crons[c.i].month)
                 /\ C5_DayCondition(crons[c.i], c.date)

\* a token of the day-of-week field with Sunday written as 0
C6_SundayToken(tok) ==
    LET t == replace_day(tok)
    IN  IF t.k = "num" /\ t.v = 7 THEN Num(0) ELSE t

\* a text with its alias expanded and every Sunday written as 0
C6_SundayForm(text) ==
    LET fields == split_fields(text)
    IN  [fields EXCEPT ![5] =
            [k \in DOMAIN fields[5] |->
                Interval(C6_SundayToken(fields[5][k].start),
                         C6_SundayToken(fields[5][k].end),
                         fields[5][k].step)]]

\* the day-of-week field of the text names Sunday alone
C6_OnlySunday(text) == C6_SundayForm(text)[5] = <<One(0)>>

\* C6: two texts that differ only in how they write Sunday (0, 7, sun,
\* @weekly) give the same validate and next_valid_date results, and a Sunday
\* whose minute, hour and month match is accepted.
C6_SundayWritings ==
    /\ \A c1 \in checks : \A c2 \in checks :
          (C6_SundayForm(TextOf(c1.i)) = C6_SundayForm(TextOf(c2.i)) /\ c1.date = c2.date)
              => c1.ok = c2.ok
    /\ \A r1 \in dates : \A r2 \in dates :
          (C6_SundayForm(TextOf(r1.i)) = C6_SundayForm(TextOf(r2.i)) /\ r1.last = r2.last)
              => r1.next = r2.next
    /\ \A c \in checks :
          (/\ C6_OnlySunday(TextOf(c.i))
           /\ isoweekday(c.date) = 7
           /\ In(dt_minute(c.date), crons[c.i].minute)
           /\ In(dt_hour(c.date), crons[c.i].hour)
           /\ In(dt_month(c.date), crons[c.i].month))
              => c.ok

\* the text is "0 0 D * *" or "0 0 D M *"
C7_DomText(text) ==
    /\ text.alias = ""
    /\ text.fields[1] = minute0
    /\ text.fields[2] = minute0
    /\ Len(text.fields[3]) = 1
    /\ text.fields[3][1].start.k = "num"
    /\ text.fields[3][1].end = Empty
    /\ text.fields[3][1].step = Empty
    /\ \/ text.fields[4] = any
       \/ /\ Len(text.fields[4]) = 1
          /\ text.fields[4][1].start.k = "num"
          /\ text.fields[4][1].end = Empty
          /\ text.fields[4][1].step = Empty
    /\ text.fields[5] = any

\* midnight t is the D-th day of a month of the text
C7_Matches(text, t) ==
    /\ dt_day(t) = text.fields[3][1].start.v
    /\ text.fields[4] = any \/ dt_month(t) = text.fields[4][1].start.v

\* C7: for "0 0 D * *" and "0 0 D M *" next_valid_date returns 00:00 of the
\* earliest later calendar date whose day-of-month is D (and month is M).
C7_DomRollover ==
    \A r \in dates :
        C7_DomText(TextOf(r.i)) =>
            /\ r.next > r.last
            /\ r.next % TicksPerDay = 0
            /\ C7_Matches(TextOf(r.i), r.next)
            /\ \A d \in DayIndex(r.last)..(DayIndex(r.next) - 1) :
                  d * TicksPerDay > r.last => ~C7_Matches(TextOf(r.i), d * TicksPerDay)

\* C18: no call of next_valid_date on a parsed CronSpec raises: every search
\* for the first value >= the current minute, hour, weekday, day or month
\* finds one, and no first element is taken of an empty set.
C18_SearchesSucceed == failed = {}

-----------------------------------------------------------------------------
(* Properties of the Scheduler, stated of Spec. *)

\* the calendar minute of a message's scheduled_at
MinuteOf(m) == <<m.year, m.month, m.day, m.hour, m.minute>>

\* the whole minutes after the first tick's minute, up to the last tick's
TickedMinutes ==
    IF ticks = <<>> THEN {}
    ELSE LET lo == replace_second0(ticks[1].now)
             hi == replace_second0(ticks[Len(ticks)].now)
         IN  {lo + j * TicksPerMinute : j \in 1..((hi - lo) \div TicksPerMinute)}

\* C8: no trigger is missed: every minute after the first tick that a task's
\* spec validates, and that the scheduler has reached, has a message of that
\* task with scheduled_at in that minute.
C8_NoMissedTrigger ==
    \A a \in DOMAIN actors : \A m \in TickedMinutes :
        validate(actors[a], m) =>
            \E k \in DOMAIN sent :
                sent[k].actor = a /\ MinuteOf(sent[k].scheduled_at) = MinuteOf(str(m))

\* C9: no task is sent twice with scheduled_at in the same calendar minute.
C9_NoDuplicateTrigger ==
    \A j \in DOMAIN sent : \A k \in DOMAIN sent :
        (j < k /\ sent[j].actor = sent[k].actor)
            => MinuteOf(sent[j].scheduled_at) # MinuteOf(sent[k].scheduled_at)

\* C9 witness: a tick that sent a task computed a delay <= 0 and recursed, and
\* the tick of the recursion sent the same task again.
C9_Witness ==
    \E t \in DOMAIN ticks :
        /\ ticks[t].delay <= 0
        /\ t + 1 \in DOMAIN ticks
        /\ \E j \in ticks[t].from..ticks[t].to :
              \E k \in ticks[t + 1].from..ticks[t + 1].to :
                  sent[j].actor = sent[k].actor

\* C10: a tick evaluates now = the current time plus half a second, cut to
\* whole seconds; it sends one message for each task whose spec validates now,
\* none for any other task, and each message carries that now as scheduled_at.
C10_TickSendsDueActors ==
    \A t \in DOMAIN ticks :
        LET e == ticks[t]
        IN  /\ e.now % Res = 0
            /\ 2 * e.now <= 2 * e.at + Res
            /\ 2 * e.at + Res < 2 * (e.now + Res)
            /\ e.to <= Len(sent)
            /\ \A a \in DOMAIN actors :
                  Cardinality({j \in e.from..e.to : sent[j].actor = a})
                      = IF validate(actors[a], e.now) THEN 1 ELSE 0
            /\ \A j \in e.from..e.to : sent[j].scheduled_at = str(e.now)

\* C10 witness: a tick, entered in the second half of a second, sent a message
\* for one of its tasks and none for another.
C10_Witness ==
    \E t \in DOMAIN ticks :
        /\ ticks[t].now > ticks[t].at
        /\ ticks[t].to >= ticks[t].from
        /\ ticks[t].to - ticks[t].from + 1 < Len(actors)

\* C11: the wake time a tick chooses is the least next valid date of its
\* tasks, computed from the tick's now: never later than any task's next valid
\* date and equal to that of at least one task; an armed alarm expires at that
\* time.  With the tasks "* * * * *" and "0 0 * * *", the tick at
\* 2024-06-01 00:00:00 sends both and chooses the wake 60 seconds later.
C11_WakeIsEarliest ==
    /\ \A t \in DOMAIN ticks :
          /\ \A a \in DOMAIN actors :
                ticks[t].next_date <= next_valid_date(actors[a], ticks[t].now)
          /\ \E a \in DOMAIN actors :
                ticks[t].next_date = next_valid_date(actors[a], ticks[t].now)
          /\ ( /\ Len(actors) = 2
               /\ actors[1].parsed_from = TextEveryMinute
               /\ actors[2].parsed_from = TextMidnight
               /\ ticks[t].now = Stamp(2024, 6, 1, 0, 0, 0, 0) )
             => /\ {sent[j].actor : j \in ticks[t].from..ticks[t].to} = {1, 2}
                /\ ticks[t].next_date = ticks[t].now + 60 * Res
    /\ (alarm # {} /\ ticks # <<>>) => alarm = {ticks[Len(ticks)].next_date}

\* C11 witness: the tick at 2024-06-01 00:00:00 with the tasks "* * * * *" and
\* "0 0 * * *" sent two messages and armed the alarm.
C11_Witness ==
    /\ actors[1].parsed_from = TextEveryMinute
    /\ alarm # {}
    /\ \E t \in DOMAIN ticks :
          /\ ticks[t].now = Stamp(2024, 6, 1, 0, 0, 0, 0)
          /\ ticks[t].to = ticks[t].from + 1

\* what holds of the ticks of schedule() in every state: a delay that is not
\* positive arms nothing, puts nothing and is followed by a tick with a
\* positive delay; a positive delay arms the alarm or puts an event
C15_TickOutcome ==
    /\ \A t \in DOMAIN ticks :
          /\ ticks[t].delay <= 0 => (~ticks[t].armed /\ ~ticks[t].put)
          /\ ticks[t].delay > 0 => (ticks[t].armed \/ ticks[t].put)
          /\ (ticks[t].delay <= 0 /\ t + 1 \in DOMAIN ticks) => ticks[t + 1].delay > 0
    /\ (ticks # <<>> /\ ticks[Len(ticks)].delay <= 0)
          => (pc = "schedule" /\ alarm = {} /\ alarm_q = <<>>)
    /\ pc = "loop" => /\ ticks # <<>>
                      /\ ticks[Len(ticks)].delay > 0
                      /\ (alarm # {} \/ alarm_q # <<>>)

C16_OneWake ==
    /\ pc # "exit"
    /\ pc = "loop" => Cardinality(alarm) + Len(alarm_q) = 1
    /\ (pc = "loop" /\ alarm # {}) => handler
    /\ pc \in {"main", "schedule"} => (alarm = {} /\ alarm_q = <<>>)
    /\ \A k \in DOMAIN alarm_q : alarm_q[k]

\* what the signal handler and loop() do in one step
C16_HandOff ==
    /\ (alarm # {} /\ alarm' = {})
          => /\ alarm_q' = Append(alarm_q, TRUE)
             /\ UNCHANGED <<pc, sent, ticks, now, next_date, handler, actors>>
    /\ (pc = "loop" /\ pc' # "loop")
          => /\ pc' = "schedule"
             /\ alarm_q = <<TRUE>>
             /\ alarm_q' = <<>>
             /\ UNCHANGED <<sent, ticks, alarm>>

\* C16: once schedule() has returned there is exactly one outstanding wake,
\* an armed alarm or one event in alarm_q, never both; the signal handler only
\* puts the event; loop() starts one schedule() for the event it takes, never
\* exits, and an armed alarm always has its handler, so every wait of loop()
\* ends with the next schedule().
C16_WakeHandOff ==
    /\ []C16_OneWake
    /\ [][C16_HandOff]_vars
    /\ (pc = "loop") ~> (pc = "schedule")

\* C16 witness: an alarm was armed, its handler put the event, and loop() took
\* it and started schedule().
C16_Witness ==
    /\ pc = "schedule"
    /\ ticks # <<>>
    /\ ticks[Len(ticks)].armed
    /\ handler

\* C17: a tick with a positive delay of s whole seconds puts an event at once
\* and arms no alarm if s = 0, and arms the alarm for exactly s seconds and
\* puts nothing if s >= 1; an alarm is never armed for 0 seconds, and an armed
\* alarm has the handler installed.
C17_DelaySplit ==
    /\ \A t \in DOMAIN ticks :
          /\ (ticks[t].delay > 0 /\ ticks[t].delay \div Res = 0)
                => (ticks[t].put /\ ~ticks[t].armed)
          /\ (ticks[t].delay > 0 /\ ticks[t].delay \div Res >= 1)
                => /\ ticks[t].armed
                   /\ ~ticks[t].put
                   /\ ticks[t].alarm_s = ticks[t].delay \div Res
          /\ ticks[t].armed => ticks[t].alarm_s >= 1
    /\ alarm # {} => handler
    /\ (pc = "loop" /\ ticks # <<>> /\ ticks[Len(ticks)].put)
          => (alarm = {} /\ alarm_q = <<TRUE>>)
    /\ (pc = "loop" /\ alarm # {}) => (alarm_q = <<>> /\ ticks[Len(ticks)].armed)

\* C17 witness: one tick had a delay under a second and put an event, another
\* armed the alarm.
C17_Witness ==
    /\ \E t \in DOMAIN ticks : ticks[t].put /\ ticks[t].delay < Res
    /\ \E t \in DOMAIN ticks : ticks[t].armed /\ ticks[t].alarm_s >= 1

-----------------------------------------------------------------------------
(* Properties of the middleware, stated of SpecWorker. *)

\* C13: before_process_message raises SkipMessage exactly when the actor is
\* periodic, the message carries scheduled_at, and the time since scheduled_at
\* is strictly more than skip_delay seconds; a message as old as skip_delay or
\* younger, one without scheduled_at, and one of an actor that is not periodic
\* are processed.
C13_SkipsOutdated ==
    outcome # "queued" =>
        /\ outcome \in {"skipped", "processed"}
        /\ outcome = "skipped" <=>
              /\ message.periodic
              /\ \E t \in ScheduledTimes :
                    /\ message.scheduled_at = <<str(t)>>
                    /\ clock - t > skip_delay * Res

\* C13 witness: with the default skip_delay, a message of a periodic actor
\* exactly 30 seconds old was processed.
C13_Witness ==
    /\ outcome = "processed"
    /\ message.periodic
    /\ skip_delay = DefaultSkipDelay
    /\ \E t \in ScheduledTimes :
          message.scheduled_at = <<str(t)>> /\ clock - t = 30 * Res

-----------------------------------------------------------------------------
(* Properties of texts and objects, stated of SpecText. *)

\* a token of field k that is a number of the field's domain, or a weekday
\* name in the day-of-week field
C12_TokenInDomain(tok, k) ==
    \/ tok.k = "num" /\ tok.v \in field_min[k]..field_max[k]
    \/ /\ k = 5
       /\ \E i \in DOMAIN weekdays : tok.k \in {weekdays[i], day_names[i]}

\* an interval of field k: `*' or a value, an optional end, an optional step
C12_IntervalInDomain(iv, k) ==
    /\ \/ iv.start.k = "*" /\ iv.end.k = ""
       \/ C12_TokenInDomain(iv.start, k)
    /\ iv.end.k = "" \/ C12_TokenInDomain(iv.end, k)
    /\ iv.step.k = "" \/ (iv.step.k = "num" /\ iv.step.v >= 1)

\* a recognized alias, or exactly 5 fields with every value in its domain
C12_WellFormed(text) ==
    IF text.alias # ""
    THEN text.alias \in {"@yearly", "@annually", "@monthly", "@weekly", "@daily",
                         "@midnight", "@hourly"}
    ELSE /\ Len(text.fields) = 5
         /\ \A k \in 1..5 : \A i \in DOMAIN text.fields[k] :
               C12_IntervalInDomain(text.fields[k][i], k)

\* C12: parse returns a CronSpec only for a text that is a recognized alias
\* or has exactly 5 fields whose every value lies in the field's domain; an
\* unknown alias, another number of fields, a token that is no number and a
\* value out of its domain make it raise.
C12_ParseAcceptsWellFormed ==
    \A c \in parses : ~c.raised => C12_WellFormed(c.text)

\* the values one interval stands for: N, N + S, N + 2S, ... up to M
C14_Values(iv, min, max) ==
    LET N == IF iv.start.k = "*" THEN min ELSE iv.start.v
        M == IF iv.start.k = "*" THEN max ELSE IF iv.end.k = "" THEN N ELSE iv.end.v
        S == IF iv.step.k = "" THEN 1 ELSE iv.step.v
    IN  {x \in N..M : (x - N) % S = 0}

\* C14: expand_valid returns, in ascending order and without duplicates, the
\* union of the values of the comma separated sub-expressions: `*' stands for
\* min-max, N for {N}, N-M/S for N, N+S, N+2S, ... up to M;
\* expand_valid("10-20/3", 0, 59) = [10, 13, 16, 19].
C14_ExpandValid ==
    \A e \in expands :
        /\ \A i, j \in DOMAIN e.ret : i < j => e.ret[i] < e.ret[j]
        /\ {e.ret[i] : i \in DOMAIN e.ret}
              = UNION {C14_Values(e.value[i], e.min, e.max) : i \in DOMAIN e.value}
        /\ (e.value = <<RangeStep(10, 20, 3)>> /\ e.min = 0 /\ e.max = 59)
              => e.ret = <<10, 13, 16, 19>>

\* C14 witness: parse called expand_valid("10-20/3", 0, 59) and
\* expand_valid("*/6", 0, 23), and they returned.
C14_Witness ==
    /\ \E e \in expands : e.value = <<RangeStep(10, 20, 3)>> /\ Len(e.ret) = 4
    /\ \E e \in expands : e.value = <<AllStep(6)>> /\ e.ret = <<0, 6, 12, 18>>

\* a set of a CronSpec: not empty, ascending without duplicates, in min..max
C19_SetOK(values, min, max) ==
    /\ values # <<>>
    /\ \A i \in DOMAIN values : values[i] \in min..max
    /\ \A i, j \in DOMAIN values : i < j => values[i] < values[j]

\* C19: of every CronSpec made by parse or replace, each of the five sets is
\* not empty, ascending, free of duplicates and within its domain, and the
\* extended minute, hour, month and weekday sets are the set plus one
\* sentinel, its first value + 60, 24, 12, 7; replace returns a new CronSpec
\* without source text and leaves the original as it was.
C19_DataInvariant ==
    /\ \A k \in DOMAIN objs :
          /\ C19_SetOK(objs[k].minute, 0, 59)
          /\ C19_SetOK(objs[k].hour, 0, 23)
          /\ C19_SetOK(objs[k].dom, 1, 31)
          /\ C19_SetOK(objs[k].month, 1, 12)
          /\ C19_SetOK(objs[k].dow, 0, 7)
          /\ objs[k].minute_e = Append(objs[k].minute, objs[k].minute[1] + 60)
          /\ objs[k].hour_e = Append(objs[k].hour, objs[k].hour[1] + 24)
          /\ objs[k].month_e = Append(objs[k].month, objs[k].month[1] + 12)
          /\ objs[k].dow_e = Append(objs[k].dow, objs[k].dow[1] + 7)
    /\ \A r \in replaces :
          /\ objs[r.src] = r.before
          /\ ~r.raised => /\ r.new # r.src
                          /\ objs[r.new].parsed_from = NoText

\* the maximal runs of consecutive values, as intervals a-b or single values
C20_Runs(values) ==
    LET V == {values[i] : i \in DOMAIN values}
        starts == sorted({a \in V : a - 1 \notin V})
    IN  [k \in DOMAIN starts |->
            LET b == CHOOSE b \in V : /\ b >= starts[k]
                                      /\ b + 1 \notin V
                                      /\ \A x \in starts[k]..b : x \in V
            IN  IF b = starts[k] THEN One(b) ELSE Range(starts[k], b)]

\* what a field of a canonical text must be for its set
C20_FieldOK(field, values, min, max) ==
    IF {values[i] : i \in DOMAIN values} = min..max
    THEN field = <<All>>
    ELSE field = C20_Runs(values)

\* C20: str() of a CronSpec without source text renders a field as `*'
\* exactly when its set is the whole domain, and otherwise as its maximal
\* runs joined by commas (the days of the week by their names); parse of that
\* text returns a CronSpec equal to the one that was formatted.
C20_CanonicalText ==
    \A c \in strs :
        (~c.raised /\ objs[c.obj].parsed_from = NoText) =>
            /\ C20_FieldOK(c.text.fields[1], objs[c.obj].minute, 0, 59)
            /\ C20_FieldOK(c.text.fields[2], objs[c.obj].hour, 0, 23)
            /\ C20_FieldOK(c.text.fields[3], objs[c.obj].dom, 1, 31)
            /\ C20_FieldOK(c.text.fields[4], objs[c.obj].month, 1, 12)
            /\ c.text.fields[5] = <<All>>
                  <=> {objs[c.obj].dow[i] : i \in DOMAIN objs[c.obj].dow} = 0..7
            /\ \A q \in parses :
                  q.text = c.text => (~q.raised /\ eq(objs[q.obj], objs[c.obj]))

=============================================================================
